---- MODULE Spec2Model ----
(***************************************************************************)
(* Model of src/index.js: the admin-on-rest -> PostgREST REST client.      *)
(*                                                                         *)
(* JavaScript strings are sequences of one-character strings, so that      *)
(* replace, split, join, parseInt and template literals are computed and   *)
(* not assumed.  JavaScript values are records with a type tag.            *)
(***************************************************************************)
EXTENDS Integers, Sequences, FiniteSets, TLC

VARIABLES localStorage, pc, type, resource, params, request, transportCalls,
          response, outcome

vars == <<localStorage, pc, type, resource, params, request, transportCalls,
          response, outcome>>

(***************************************************************************)
(* Bounds of the model.                                                    *)
(***************************************************************************)
MaxPage == 3
MaxPerPage == 2
MaxRangeLen == 2
MaxTotal == 2
MaxIds == 2

(***************************************************************************)
(* Characters and string literals.                                         *)
(***************************************************************************)
Digits == <<"0", "1", "2", "3", "4", "5", "6", "7", "8", "9">>

S_ilike == <<"i", "l", "i", "k", "e", ".", "*">>
S_star == <<"*">>
S_is == <<"i", "s", ".">>
S_isnull == <<"i", "s", ".", "n", "u", "l", "l">>
S_eq == <<"e", "q", ".">>
S_true == <<"t", "r", "u", "e">>
S_false == <<"f", "a", "l", "s", "e">>
S_null == <<"n", "u", "l", "l">>
S_undefined == <<"u", "n", "d", "e", "f", "i", "n", "e", "d">>
S_objectObject == <<"[", "o", "b", "j", "e", "c", "t", " ", "O", "b", "j", "e", "c", "t", "]">>
S_Bearer == <<"B", "e", "a", "r", "e", "r", " ">>
S_items == <<"i", "t", "e", "m", "s">>
S_countExact == <<"c", "o", "u", "n", "t", "=", "e", "x", "a", "c", "t">>
S_returnRepresentation == <<"r", "e", "t", "u", "r", "n", "=", "r", "e", "p", "r", "e", "s", "e", "n", "t", "a", "t", "i", "o", "n">>
S_pgrstObject == <<"a", "p", "p", "l", "i", "c", "a", "t", "i", "o", "n", "/", "v", "n", "d", ".", "p", "g", "r", "s", "t", ".", "o", "b", "j", "e", "c", "t", "+", "j", "s", "o", "n">>
S_applicationJson == <<"a", "p", "p", "l", "i", "c", "a", "t", "i", "o", "n", "/", "j", "s", "o", "n">>
S_inOpen == <<"i", "n", ".", "(">>
S_close == <<")">>

(***************************************************************************)
(* JavaScript values.  t is the value's kind; s, n, b, a hold the payload  *)
(* of a string, number, boolean and array of strings.                      *)
(***************************************************************************)
JSVal(t, s, n, b, a) == [t |-> t, s |-> s, n |-> n, b |-> b, a |-> a]
Str(s) == JSVal("string", s, 0, FALSE, <<>>)
Number(n) == JSVal("number", <<>>, n, FALSE, <<>>)
Bool(b) == JSVal("boolean", <<>>, 0, b, <<>>)
Undefined == JSVal("undefined", <<>>, 0, FALSE, <<>>)
Null == JSVal("null", <<>>, 0, FALSE, <<>>)
Array(a) == JSVal("array", <<>>, 0, FALSE, a)
PlainObject == JSVal("object", <<>>, 0, FALSE, <<>>)

\* typeof v
TypeOf(v) ==
    IF v.t \in {"null", "array", "object"} THEN "object" ELSE v.t

\* Number.prototype.toString / template-literal conversion of an integer.
RECURSIVE NatToString(_)
NatToString(n) ==
    IF n < 10 THEN <<Digits[n + 1]>>
    ELSE NatToString(n \div 10) \o <<Digits[(n % 10) + 1]>>

IntToString(n) == IF n < 0 THEN <<"-">> \o NatToString(0 - n) ELSE NatToString(n)

\* Array.prototype.join over an array of strings.
RECURSIVE Join(_, _)
Join(a, sep) ==
    IF Len(a) = 0 THEN <<>>
    ELSE IF Len(a) = 1 THEN a[1]
    ELSE a[1] \o sep \o Join(Tail(a), sep)

\* `${v}`: the template-literal conversion, defined for every value.
TemplateString(v) ==
    CASE v.t = "string" -> v.s
      [] v.t = "number" -> IntToString(v.n)
      [] v.t = "boolean" -> (IF v.b THEN S_true ELSE S_false)
      [] v.t = "undefined" -> S_undefined
      [] v.t = "null" -> S_null
      [] v.t = "array" -> Join(v.a, <<",">>)
      [] OTHER -> S_objectObject

\* v.toString(): a property access, which throws on null and undefined.
ToStringThrows(v) == v.t \in {"null", "undefined"}

\* s.replace(/:/, ""): the pattern has no g flag, so one match is replaced.
ReplaceColon(s) ==
    LET hits == {i \in 1..Len(s) : s[i] = ":"}
    IN  IF hits = {} THEN s
        ELSE LET m == CHOOSE i \in hits : \A j \in hits : i <= j
             IN  SubSeq(s, 1, m - 1) \o SubSeq(s, m + 1, Len(s))

(***************************************************************************)
(* Errors.                                                                 *)
(***************************************************************************)
NoError == [name |-> "", message |-> ""]
UnsupportedOperation == [name |-> "Error", message |-> "Unsupported fetch action type"]
MissingRangeHeader ==
    [name |-> "Error", message |-> "The Content-Range header is missing in the HTTP Response."]
TokenTypeError == [name |-> "TypeError", message |-> "Cannot read property 'length' of null"]
ToStringTypeError == [name |-> "TypeError", message |-> "Cannot read property 'toString' of null"]
TransportFailure == [name |-> "HttpError", message |-> "transport"]

(***************************************************************************)
(* JavaScript objects are functions from their keys.                       *)
(***************************************************************************)
EmptyObject == [k \in {} |-> Undefined]

ObjGet(o, k) == IF k \in DOMAIN o THEN o[k] ELSE Undefined

\* Object.assign(a, b) and the spread {...a, ...b}: b's keys win.
ObjectAssign(a, b) ==
    [k \in (DOMAIN a) \cup (DOMAIN b) |-> IF k \in DOMAIN b THEN b[k] ELSE a[k]]

(***************************************************************************)
(* convertFilters                                                          *)
(***************************************************************************)
\* One iteration of the switch on typeof filters[key].
ConvertFilterValue(v) ==
    CASE TypeOf(v) = "string" -> S_ilike \o ReplaceColon(v.s) \o S_star
      [] TypeOf(v) = "boolean" -> S_is \o TemplateString(v)
      [] TypeOf(v) = "undefined" -> S_isnull
      [] TypeOf(v) = "number" -> S_eq \o TemplateString(v)
      [] OTHER -> S_ilike \o ReplaceColon(TemplateString(v)) \o S_star

\* The default branch calls filters[key].toString(), which throws on null.
ConvertFilterValueThrows(v) ==
    TypeOf(v) \notin {"string", "boolean", "undefined", "number"} /\ ToStringThrows(v)

convertFilters(filters) ==
    IF \E k \in DOMAIN filters : ConvertFilterValueThrows(filters[k])
    THEN [threw |-> TRUE, error |-> ToStringTypeError, rest |-> EmptyObject]
    ELSE [threw |-> FALSE, error |-> NoError,
          rest |-> [k \in DOMAIN filters |-> ConvertFilterValue(filters[k])]]

(***************************************************************************)
(* Operation kinds (admin-on-rest/lib/rest/types).                         *)
(***************************************************************************)
GET_LIST == "GET_LIST"
GET_ONE == "GET_ONE"
GET_MANY == "GET_MANY"
GET_MANY_REFERENCE == "GET_MANY_REFERENCE"
CREATE == "CREATE"
UPDATE == "UPDATE"
DELETE == "DELETE"

SupportedTypes == {GET_LIST, GET_ONE, GET_MANY, GET_MANY_REFERENCE, CREATE, UPDATE, DELETE}

(***************************************************************************)
(* Headers: a mapping keyed by the lower-cased header name, as the Fetch   *)
(* Headers class normalises names in set, has and get.                     *)
(***************************************************************************)
UpperLetters == <<"A", "B", "C", "D", "E", "F", "G", "H", "I", "J", "K", "L", "M",
                  "N", "O", "P", "Q", "R", "S", "T", "U", "V", "W", "X", "Y", "Z">>
LowerLetters == <<"a", "b", "c", "d", "e", "f", "g", "h", "i", "j", "k", "l", "m",
                  "n", "o", "p", "q", "r", "s", "t", "u", "v", "w", "x", "y", "z">>

LowerChar(c) ==
    IF \E i \in 1..Len(UpperLetters) : UpperLetters[i] = c
    THEN LowerLetters[CHOOSE i \in 1..Len(UpperLetters) : UpperLetters[i] = c]
    ELSE c

\* String.prototype.toLowerCase
ToLowerCase(s) == [i \in 1..Len(s) |-> LowerChar(s[i])]

H_Authorization == <<"A", "u", "t", "h", "o", "r", "i", "z", "a", "t", "i", "o", "n">>
H_RangeUnit == <<"R", "a", "n", "g", "e", "-", "U", "n", "i", "t">>
H_Range == <<"R", "a", "n", "g", "e">>
H_Prefer == <<"P", "r", "e", "f", "e", "r">>
H_Accept == <<"A", "c", "c", "e", "p", "t">>
H_contentRange == <<"c", "o", "n", "t", "e", "n", "t", "-", "r", "a", "n", "g", "e">>

\* new Headers()
NewHeaders == [k \in {} |-> <<>>]

HeadersSet(h, name, value) ==
    [k \in (DOMAIN h) \cup {ToLowerCase(name)} |->
        IF k = ToLowerCase(name) THEN value ELSE h[k]]

HeadersHas(h, name) == ToLowerCase(name) \in DOMAIN h

HeadersGet(h, name) == h[ToLowerCase(name)]

(***************************************************************************)
(* JSON.stringify of a flat object of strings and numbers.                 *)
(***************************************************************************)
KeyChars(k) ==
    CASE k = "id" -> <<"i", "d">>
      [] k = "name" -> <<"n", "a", "m", "e">>
      [] k = "extra" -> <<"e", "x", "t", "r", "a">>
      [] OTHER -> <<"?">>

KeyOrder == <<"name", "id", "extra">>

JSONValue(v) ==
    IF v.t = "string" THEN <<"\"">> \o v.s \o <<"\"">> ELSE TemplateString(v)

RECURSIVE JSONMembers(_, _)
JSONMembers(o, keys) ==
    IF Len(keys) = 0 THEN <<>>
    ELSE IF keys[1] \in DOMAIN o /\ o[keys[1]].t # "undefined"
         THEN <<(<<"\"">> \o KeyChars(keys[1]) \o <<"\"", ":">> \o JSONValue(o[keys[1]]))>>
              \o JSONMembers(o, Tail(keys))
         ELSE JSONMembers(o, Tail(keys))

JSONStringify(o) == <<"{">> \o Join(JSONMembers(o, KeyOrder), <<",">>) \o <<"}">>

(***************************************************************************)
(* convertRESTRequestToHTTP                                                *)
(***************************************************************************)
apiUrl == "http://my.api.url"
TokenMinLength == 16

NoBody == <<>>
NoRequest ==
    [url |-> [base |-> "", resource |-> "", query |-> EmptyObject, search |-> <<>>],
     options |-> [headers |-> NewHeaders, method |-> "", body |-> NoBody]]

Url(res, query, search) ==
    [base |-> apiUrl, resource |-> res, query |-> query, search |-> search]

Threw(e) == [threw |-> TRUE, error |-> e, url |-> NoRequest.url, options |-> NoRequest.options]
Built(u, o) == [threw |-> FALSE, error |-> NoError, url |-> u, options |-> o]

\* options.headers = new Headers(); a Headers object is truthy, so the
\* branch that would create it with Accept: application/json is not taken.
\* IsFalsy(h) is !h for an object h: no object is falsy.
IsFalsy(h) == FALSE

InitialHeaders ==
    LET fresh == NewHeaders
    IN  IF IsFalsy(fresh) THEN HeadersSet(NewHeaders, H_Accept, S_applicationJson) ELSE fresh

\* if (token.length > 16) options.headers.set("Authorization", `Bearer ${token}`)
TokenHeaders(h, token) ==
    IF Len(token.s) > TokenMinLength
    THEN HeadersSet(h, H_Authorization, S_Bearer \o TemplateString(token))
    ELSE h

singleResourceUrl(res, p) ==
    Url(res, [id |-> S_eq \o TemplateString(p.id)], <<>>)

setSingleResponseHeaders(h) ==
    HeadersSet(HeadersSet(h, H_Prefer, S_returnRepresentation), H_Accept, S_pgrstObject)

\* Mutant: the range's end is one past the page's last item.
RangeHeader_EndOffByOne(page, perPage) ==
    IntToString((page - 1) * perPage) \o <<"-">> \o IntToString(page * perPage)

\* `${(page - 1) * perPage}-${page * perPage - 1}`
RangeHeader(page, perPage) ==
    IntToString((page - 1) * perPage) \o <<"-">> \o IntToString(page * perPage - 1)

\* `${field}.${order.toLowerCase()}`
OrderQuery(sort) == [order |-> sort.field \o <<".">> \o ToLowerCase(sort.order)]

ListHeaders(h, pagination) ==
    HeadersSet(
        HeadersSet(
            HeadersSet(h, H_RangeUnit, S_items),
            H_Range, RangeHeader(pagination.page, pagination.perPage)),
        H_Prefer, S_countExact)

RECURSIVE IdStrings(_)
IdStrings(ids) ==
    IF Len(ids) = 0 THEN <<>> ELSE <<TemplateString(ids[1])>> \o IdStrings(Tail(ids))

convertRESTRequestToHTTP(ty, res, p, token) ==
    IF token.t = "null" THEN Threw(TokenTypeError)
    ELSE
    LET headers == TokenHeaders(InitialHeaders, token)
        Options(h, m, b) == [headers |-> h, method |-> m, body |-> b]
    IN  CASE ty = GET_LIST ->
               LET f == convertFilters(p.filter)
               IN  IF f.threw THEN Threw(f.error)
                   ELSE Built(Url(res, ObjectAssign(OrderQuery(p.sort), f.rest), <<>>),
                              Options(ListHeaders(headers, p.pagination), "", NoBody))
          [] ty = GET_ONE ->
               Built(singleResourceUrl(res, p),
                     Options(setSingleResponseHeaders(headers), "", NoBody))
          [] ty = GET_MANY ->
               Built(Url(res, EmptyObject,
                         <<"i", "d", "=">> \o S_inOpen \o Join(IdStrings(p.ids), <<",">>) \o S_close),
                     Options(headers, "", NoBody))
          [] ty = GET_MANY_REFERENCE ->
               LET f == convertFilters((p.target :> p.id))
               IN  IF f.threw THEN Threw(f.error)
                   ELSE Built(Url(res, ObjectAssign(OrderQuery(p.sort), f.rest), <<>>),
                              Options(headers, "", NoBody))
          [] ty = UPDATE ->
               Built(singleResourceUrl(res, p),
                     Options(setSingleResponseHeaders(headers), "PATCH", JSONStringify(p.data)))
          [] ty = CREATE ->
               Built(Url(res, EmptyObject, <<>>),
                     Options(setSingleResponseHeaders(headers), "POST", JSONStringify(p.data)))
          [] ty = DELETE ->
               Built(singleResourceUrl(res, p), Options(headers, "DELETE", NoBody))
          [] OTHER -> Threw(UnsupportedOperation)

(***************************************************************************)
(* JavaScript numbers as produced by parseInt: an integer or NaN.          *)
(***************************************************************************)
Num(n) == [nan |-> FALSE, n |-> n]
NaN == [nan |-> TRUE, n |-> 0]

IsDigit(c) == \E i \in 1..Len(Digits) : Digits[i] = c
DigitValue(c) == (CHOOSE i \in 1..Len(Digits) : Digits[i] = c) - 1

RECURSIVE DigitsValue(_)
DigitsValue(s) ==
    IF Len(s) = 0 THEN 0
    ELSE 10 * DigitsValue(SubSeq(s, 1, Len(s) - 1)) + DigitValue(s[Len(s)])

\* parseInt(s, 10): an optional sign, then the longest prefix of digits;
\* NaN when that prefix is empty.
ParseInt(s) ==
    LET signed == Len(s) > 0 /\ s[1] \in {"-", "+"}
        body == IF signed THEN Tail(s) ELSE s
        k == CHOOSE n \in 0..Len(body) :
                 /\ \A i \in 1..n : IsDigit(body[i])
                 /\ (n < Len(body) => ~IsDigit(body[n + 1]))
    IN  IF k = 0 THEN NaN
        ELSE IF signed /\ s[1] = "-" THEN Num(0 - DigitsValue(SubSeq(body, 1, k)))
        ELSE Num(DigitsValue(SubSeq(body, 1, k)))

\* a || b on numbers: NaN and 0 are falsy.
Truthy(x) == ~x.nan /\ x.n # 0
OrElse(a, b) == IF Truthy(a) THEN a ELSE b

\* x + 1
PlusOne(x) == IF x.nan THEN NaN ELSE Num(x.n + 1)

\* String.prototype.split on a one-character separator.
RECURSIVE Split(_, _)
Split(s, sep) ==
    LET hits == {i \in 1..Len(s) : s[i] = sep}
    IN  IF hits = {} THEN <<s>>
        ELSE LET m == CHOOSE i \in hits : \A j \in hits : i <= j
             IN  <<SubSeq(s, 1, m - 1)>> \o Split(SubSeq(s, m + 1, Len(s)), sep)

\* Array.prototype.pop: the last element, and the array without it.
Pop(a) == a[Len(a)]
Popped(a) == SubSeq(a, 1, Len(a) - 1)

(***************************************************************************)
(* convertHTTPResponseToREST                                               *)
(***************************************************************************)
SplitTypeError == [name |-> "TypeError", message |-> "Cannot read property 'split' of undefined"]

NoData == EmptyObject

Rejected(e) ==
    [status |-> "rejected", error |-> e, data |-> NoData, hasTotal |-> FALSE, total |-> NaN]
Thrown(e) ==
    [status |-> "thrown", error |-> e, data |-> NoData, hasTotal |-> FALSE, total |-> NaN]
Resolved(d) ==
    [status |-> "resolved", error |-> NoError, data |-> d, hasTotal |-> FALSE, total |-> NaN]
ResolvedList(d, t) ==
    [status |-> "resolved", error |-> NoError, data |-> d, hasTotal |-> TRUE, total |-> t]
Pending ==
    [status |-> "pending", error |-> NoError, data |-> NoData, hasTotal |-> FALSE, total |-> NaN]

\* Mutant: the case label GET_MANY_REFERENCE is missing.
NeedsContentRange_ListOnly(ty) == ty = GET_LIST

\* The case labels GET_LIST and GET_MANY_REFERENCE of the switch.
NeedsContentRange(ty) == ty \in {GET_LIST, GET_MANY_REFERENCE}

\* parseInt(rangeParts.pop(), 10) ||
\*     parseInt(rangeParts[0].split("-").pop(), 10) + 1
\* with rangeParts = the header split on "/".  needsRest: the right operand
\* is evaluated; it reads rangeParts[0] after the pop.
TotalOf(contentRange) ==
    LET rangeParts == Split(contentRange, "/")
        last == ParseInt(Pop(rangeParts))
        rest == Popped(rangeParts)
    IN  IF Truthy(last) THEN [threw |-> FALSE, total |-> last]
        ELSE IF Len(rest) = 0 THEN [threw |-> TRUE, total |-> NaN]
        ELSE [threw |-> FALSE,
              total |-> OrElse(last, PlusOne(ParseInt(Pop(Split(rest[1], "-")))))]

\* Mutant: the whole response body is merged over the submitted data.
CreateResult_MergeBody(data, json) == ObjectAssign(data, json)

\* { ...params.data, id: json.id }
CreateResult(data, json) == ObjectAssign(data, [id |-> ObjGet(json, "id")])

convertHTTPResponseToREST(resp, ty, res, p) ==
    IF NeedsContentRange(ty)
    THEN IF ~HeadersHas(resp.headers, H_contentRange)
         THEN Rejected(MissingRangeHeader)
         ELSE LET t == TotalOf(HeadersGet(resp.headers, H_contentRange))
              IN  IF t.threw THEN Rejected(SplitTypeError)
                  ELSE ResolvedList(resp.json, t.total)
    ELSE IF ty = CREATE THEN Resolved(CreateResult(p.data, resp.json))
    ELSE IF ty = DELETE THEN Resolved(EmptyObject)
    ELSE Resolved(resp.json)

(***************************************************************************)
(* Inputs of a call and of the collaborators.                              *)
(***************************************************************************)
Types == SupportedTypes \cup {"BOGUS"}

Resources == {"posts"}

\* localStorage.getItem("token"): null when no token is stored, else the
\* stored string.
TokenOfLength(n) == [i \in 1..n |-> "t"]
Tokens ==
    {Null, Str(<<>>), Str(TokenOfLength(TokenMinLength)), Str(TokenOfLength(TokenMinLength + 1))}

Sorts ==
    {[field |-> <<"t", "i", "t", "l", "e">>, order |-> <<"A", "S", "C">>],
     [field |-> <<"t", "i", "t", "l", "e">>, order |-> <<"d", "e", "s", "c">>]}

\* perPage values: the small ones and 10, the page size of admin-on-rest lists.
PerPages == (1..MaxPerPage) \cup {10}

Paginations == [page : 1..MaxPage, perPage : PerPages]

FilterValues ==
    {Str(<<"a", ":", "b", ":", "c">>), Str(<<"x">>), Bool(TRUE), Bool(FALSE), Undefined,
     Number(0), Number(12), Null, Array(<<(<<"a", ":", "b">>), (<<"c", ":", "d">>)>>),
     PlainObject}

FilterKeys == {"q", "f"}

FiltersOver(keys) == UNION {[ks -> FilterValues] : ks \in SUBSET keys}

\* Every filter mapping over FilterKeys.
Filters == FiltersOver(FilterKeys)

\* The filter mappings of a dispatched GET_LIST call: one field, one value of
\* each type.
DispatchFilters ==
    {f \in FiltersOver({"q"}) :
        \A k \in DOMAIN f :
            f[k] \in {Str(<<"a", ":", "b", ":", "c">>), Bool(TRUE), Undefined, Number(12), Null}}

Ids == {Number(123), Str(<<"a", ":", "b">>)}

ReferenceIds == {Number(2), Str(<<"a", ":", "b">>), Null}

IdLists == UNION {[1..n -> {Number(1), Number(2)}] : n \in 0..MaxIds}

Datas == {EmptyObject, [name |-> Str(<<"x">>)], [name |-> Str(<<"x">>), id |-> Number(7)]}

DefaultParams ==
    [pagination |-> [page |-> 1, perPage |-> 1],
     sort |-> [field |-> <<>>, order |-> <<>>],
     filter |-> EmptyObject,
     id |-> Undefined,
     ids |-> <<>>,
     target |-> "",
     data |-> EmptyObject]

ParamsFor(ty) ==
    CASE ty = GET_LIST ->
           {[DefaultParams EXCEPT !.pagination = pg, !.sort = so, !.filter = f] :
               pg \in Paginations, so \in Sorts, f \in DispatchFilters}
      [] ty \in {GET_ONE, DELETE} -> {[DefaultParams EXCEPT !.id = i] : i \in Ids}
      [] ty = GET_MANY -> {[DefaultParams EXCEPT !.ids = l] : l \in IdLists}
      [] ty = GET_MANY_REFERENCE ->
           {[DefaultParams EXCEPT !.target = "post_id", !.id = i, !.sort = so] :
               i \in ReferenceIds, so \in Sorts}
      [] ty = UPDATE -> {[DefaultParams EXCEPT !.id = i, !.data = d] : i \in Ids, d \in Datas}
      [] ty = CREATE -> {[DefaultParams EXCEPT !.data = d] : d \in Datas}
      [] OTHER -> {DefaultParams}

\* Response bodies: an object for the single-record kinds, a list otherwise.
ServerObjects ==
    {[id |-> Number(42), name |-> Str(<<"y">>), extra |-> Str(<<"z">>)],
     [id |-> Number(42)],
     [name |-> Str(<<"y">>)],
     EmptyObject}

ServerLists == {<<>>, <<[id |-> Number(42), name |-> Str(<<"y">>)]>>}

\* Content-Range values a PostgREST server sends: <start>-<end>/<total>,
\* <start>-<end>/*, */<total> and */*.
RangeParts ==
    {S_star} \cup
    {IntToString(st) \o <<"-">> \o IntToString(st + len - 1) :
        st \in {0, 10}, len \in 1..MaxRangeLen}

TotalParts == {S_star} \cup {IntToString(t) : t \in (0..MaxTotal) \cup {23}}

ContentRanges == {r \o <<"/">> \o t : r \in RangeParts, t \in TotalParts}

\* The header's name as the server spells it.
ContentRangeNames ==
    {<<"C", "o", "n", "t", "e", "n", "t", "-", "R", "a", "n", "g", "e">>, H_contentRange}

ResponseHeaders ==
    {NewHeaders} \cup
    {HeadersSet(NewHeaders, n, v) : n \in ContentRangeNames, v \in ContentRanges}

ResponsesFor(ty) ==
    IF ty \in {GET_LIST, GET_MANY_REFERENCE, GET_MANY}
    THEN [headers : ResponseHeaders, json : ServerLists]
    ELSE [headers : {NewHeaders, HeadersSet(NewHeaders, H_contentRange, <<"0", "-", "0", "/", "1">>)},
          json : ServerObjects]

NoResponse == [headers |-> NewHeaders, json |-> EmptyObject]

(***************************************************************************)
(* The dispatcher: (type, resource, params) =>                             *)
(*   httpClient(url, options).then(response => convertHTTPResponseToREST)  *)
(***************************************************************************)
Init ==
    /\ localStorage \in [token : Tokens]
    /\ pc = "idle"
    /\ type = ""
    /\ resource = ""
    /\ params = DefaultParams
    /\ request = NoRequest
    /\ transportCalls = 0
    /\ response = NoResponse
    /\ outcome = Pending

\* The synchronous part of a call: build the descriptor and hand it to the
\* transport; an exception of the builder leaves the call before that.
Call ==
    /\ pc = "idle"
    /\ \E ty \in Types, res \in Resources :
         \E p \in ParamsFor(ty) :
           LET r == convertRESTRequestToHTTP(ty, res, p, localStorage.token)
           IN  /\ type' = ty
               /\ resource' = res
               /\ params' = p
               /\ IF r.threw
                  THEN /\ outcome' = Thrown(r.error)
                       /\ pc' = "done"
                       /\ UNCHANGED <<request, transportCalls>>
                  ELSE /\ request' = [url |-> r.url, options |-> r.options]
                       /\ transportCalls' = transportCalls + 1
                       /\ pc' = "called"
                       /\ UNCHANGED outcome
    /\ UNCHANGED <<localStorage, response>>

\* The transport's promise resolves with {headers, json}.
TransportResolve ==
    /\ pc = "called"
    /\ \E resp \in ResponsesFor(type) : response' = resp
    /\ pc' = "responded"
    /\ UNCHANGED <<localStorage, type, resource, params, request, transportCalls, outcome>>

\* The transport's promise rejects; there is no catch, so the rejection is
\* the call's.
TransportReject ==
    /\ pc = "called"
    /\ outcome' = Rejected(TransportFailure)
    /\ pc' = "done"
    /\ UNCHANGED <<localStorage, type, resource, params, request, transportCalls, response>>

\* The then-callback.
Decode ==
    /\ pc = "responded"
    /\ outcome' = convertHTTPResponseToREST(response, type, resource, params)
    /\ pc' = "done"
    /\ UNCHANGED <<localStorage, type, resource, params, request, transportCalls, response>>

Next == Call \/ TransportResolve \/ TransportReject \/ Decode

Spec == Init /\ [][Next]_vars

(***************************************************************************)
(* The filter encoder alone, over every filter mapping of Filters.         *)
(***************************************************************************)
EncodeFilters ==
    /\ pc = "idle"
    /\ \E f \in Filters :
         LET r == convertFilters(f)
         IN  /\ params' = [DefaultParams EXCEPT !.filter = f]
             /\ outcome' = IF r.threw THEN Thrown(r.error) ELSE Resolved(r.rest)
    /\ pc' = "encoded"
    /\ UNCHANGED <<localStorage, type, resource, request, transportCalls, response>>

NextFilters == EncodeFilters

SpecFilters == Init /\ [][NextFilters]_vars

(***************************************************************************)
(* Properties.                                                             *)
(***************************************************************************)
\* The call has left the builder with a descriptor handed to the transport.
Produced == pc \in {"called", "responded"} \/ (pc = "done" /\ outcome.status # "thrown")

\* The then-callback has run.
Decoded == pc = "done" /\ outcome.status # "thrown" /\ outcome.error # TransportFailure

HasPrefix(s, pre) == Len(s) >= Len(pre) /\ SubSeq(s, 1, Len(pre)) = pre

\* C1: a call with an operation kind outside the seven supported ones fails
\* with UnsupportedOperation, whatever the token, and the transport is not
\* invoked during it.
C1_UnsupportedFailsBeforeTransport ==
    (pc # "idle" /\ type \notin SupportedTypes) =>
        /\ pc = "done"
        /\ outcome.status = "thrown"
        /\ outcome.error = UnsupportedOperation
        /\ transportCalls = 0

\* C2: every descriptor produced for a supported kind carries an Accept
\* header: application/vnd.pgrst.object+json for GET_ONE, UPDATE and CREATE,
\* application/json for the other kinds.
C2_AcceptHeaderAlways ==
    (Produced /\ type \in SupportedTypes) =>
        /\ HeadersHas(request.options.headers, H_Accept)
        /\ HeadersGet(request.options.headers, H_Accept) =
             IF type \in {GET_ONE, UPDATE, CREATE} THEN S_pgrstObject ELSE S_applicationJson

\* C3: for every supported kind and every state of the token store, an unset
\* token included, the builder does not fail because of the token; a token
\* of at most 16 characters (or none) gives no Authorization header and a
\* longer one gives Authorization: Bearer <token>.
C3_TokenGate ==
    (pc # "idle" /\ type \in SupportedTypes) =>
        /\ outcome.error # TokenTypeError
        /\ Produced =>
             IF Len(localStorage.token.s) > 16
             THEN /\ HeadersHas(request.options.headers, H_Authorization)
                  /\ HeadersGet(request.options.headers, H_Authorization)
                       = S_Bearer \o localStorage.token.s
             ELSE ~HeadersHas(request.options.headers, H_Authorization)

\* C4: for a GET_LIST or GET_MANY_REFERENCE response whose Content-Range is
\* <start>-<end>/<total>, the decoded total is <total>, for every
\* non-negative total, 0 included; when it is <start>-<end>/*, the total is
\* end + 1; and the total is a non-negative integer.
C4_TotalFromContentRange ==
    (Decoded /\ type \in {GET_LIST, GET_MANY_REFERENCE}
             /\ HeadersHas(response.headers, H_contentRange)) =>
        LET cr == HeadersGet(response.headers, H_contentRange)
        IN  \A st \in {0, 10}, len \in 1..MaxRangeLen :
              LET range == IntToString(st) \o <<"-">> \o IntToString(st + len - 1)
              IN  /\ \A t \in (0..MaxTotal) \cup {23} :
                        cr = range \o <<"/">> \o IntToString(t) =>
                            /\ outcome.status = "resolved"
                            /\ outcome.total = Num(t)
                  /\ cr = range \o <<"/", "*">> =>
                        /\ outcome.status = "resolved"
                        /\ outcome.total = Num(st + len)

\* C5: when the kind is GET_LIST or GET_MANY_REFERENCE, decoding fails with
\* MissingRangeHeader, and returns no result, exactly when the response has
\* no Content-Range header under any spelling of its name; for the other
\* kinds a response without Content-Range is decoded to a result.
C5_MissingRangeHeader ==
    Decoded =>
        LET absent == \A n \in ContentRangeNames : ToLowerCase(n) \notin DOMAIN response.headers
        IN  /\ type \in {GET_LIST, GET_MANY_REFERENCE} =>
                /\ absent <=> (outcome.status = "rejected" /\ outcome.error = MissingRangeHeader)
                /\ absent => (outcome.data = NoData /\ ~outcome.hasTotal)
            /\ (type \in SupportedTypes \ {GET_LIST, GET_MANY_REFERENCE} /\ absent) =>
                /\ outcome.status = "resolved"
                /\ outcome.error = NoError

C5_Witness ==
    /\ Decoded
    /\ type = GET_MANY_REFERENCE
    /\ DOMAIN response.headers = {}
    /\ outcome.status = "rejected"
    /\ outcome.error = MissingRangeHeader

\* C6: the filter encoder raises no error for any filter mapping, values of
\* every type and null included, and yields an operator-prefixed string for
\* every field of the input.
C6_EncoderTotal ==
    pc = "encoded" =>
        /\ outcome.status = "resolved"
        /\ DOMAIN outcome.data = DOMAIN params.filter
        /\ \A k \in DOMAIN outcome.data :
              \/ HasPrefix(outcome.data[k], S_ilike)
              \/ HasPrefix(outcome.data[k], S_is)
              \/ HasPrefix(outcome.data[k], S_eq)

\* C7: every call ends in a well-formed result (a total, when there is one,
\* being a non-negative integer), in UnsupportedOperation, in
\* MissingRangeHeader, or in the transport's own failure with the decoder
\* not run.
C7_FourOutcomes ==
    pc = "done" =>
        \/ /\ outcome.status = "resolved"
           /\ outcome.hasTotal => (~outcome.total.nan /\ outcome.total.n >= 0)
        \/ outcome.status = "thrown" /\ outcome.error = UnsupportedOperation
        \/ outcome.status = "rejected" /\ outcome.error = MissingRangeHeader
        \/ /\ outcome.status = "rejected"
           /\ outcome.error = TransportFailure
           /\ response = NoResponse

\* The result of decoding a CREATE response: the response body's id under
\* "id", the submitted value under every other submitted key, nothing else.
CreateMerged ==
    /\ outcome.status = "resolved"
    /\ DOMAIN outcome.data = (DOMAIN params.data) \cup {"id"}
    /\ outcome.data["id"] =
          (IF "id" \in DOMAIN response.json THEN response.json["id"] ELSE Undefined)
    /\ \A k \in (DOMAIN params.data) \ {"id"} : outcome.data[k] = params.data[k]

C9_ListRange ==
    (Produced /\ type = GET_LIST) =>
        LET h == request.options.headers
            page == params.pagination.page
            perPage == params.pagination.perPage
            parts == Split(h[ToLowerCase(H_Range)], "-")
            s == ParseInt(parts[1])
            e == ParseInt(parts[2])
            nextParts == Split(RangeHeader(page + 1, perPage), "-")
        IN  /\ h[ToLowerCase(H_RangeUnit)] = S_items
            /\ h[ToLowerCase(H_Prefer)] = S_countExact
            /\ Len(parts) = 2
            /\ ~s.nan /\ ~e.nan
            /\ h[ToLowerCase(H_Range)] = IntToString(s.n) \o <<"-">> \o IntToString(e.n)
            /\ s.n = (page - 1) * perPage
            /\ e.n = page * perPage - 1
            /\ e.n - s.n + 1 = perPage
            /\ s.n >= 0
            /\ ParseInt(nextParts[1]) = Num(e.n + 1)

C9_Witness ==
    /\ pc = "called"
    /\ type = GET_LIST
    /\ params.pagination = [page |-> 2, perPage |-> 10]
    /\ request.options.headers[ToLowerCase(H_Range)] = <<"1", "0", "-", "1", "9">>

\* What the rules give for one filter value: by type, with the first colon
\* of a string or of another value's text removed.
ExpectedFilter(v) ==
    IF v.t = "string" THEN S_ilike \o ReplaceColon(v.s) \o S_star
    ELSE IF v.t = "boolean" THEN (IF v.b THEN S_is \o S_true ELSE S_is \o S_false)
    ELSE IF v.t = "undefined" THEN S_isnull
    ELSE IF v.t = "number" THEN S_eq \o IntToString(v.n)
    ELSE S_ilike \o ReplaceColon(TemplateString(v)) \o S_star

\* C10: the filter encoder maps each field by the type of its value (string,
\* boolean, undefined, number, any other value by its text) and the output
\* has exactly the input's field names.
C10_EncoderRules ==
    pc = "encoded" =>
        /\ outcome.status = "resolved"
        /\ DOMAIN outcome.data = DOMAIN params.filter
        /\ \A k \in DOMAIN outcome.data : outcome.data[k] = ExpectedFilter(params.filter[k])
        /\ ConvertFilterValue(Str(<<"a", ":", "b", ":", "c">>))
             = <<"i", "l", "i", "k", "e", ".", "*", "a", "b", ":", "c", "*">>

====
